---- MODULE Spec2Model ----
\* A model of crates/flipperzero/src/storage.rs: the Error taxonomy, the
\* Read/Seek/Write traits with their provided methods, OpenOptions::open and the
\* File resource over the firmware's storage calls.
\*
\* The firmware (sys::storage_file_*) is outside the crate.  It is modelled as one
\* path on a storage of MaxSize bytes, with FatFs positioning: a seek past the end
\* stops at the end of a read-only file and extends a writable one with zero
\* bytes, a write stops at the capacity, and every fallible call may also fail on
\* the device (dev).
EXTENDS Integers, Sequences, FiniteSets, TLC

VARIABLES
    files,      \* handle -> the native File object and whether a Rust File owns it
    exists,     \* whether the path exists on the storage
    data,       \* the bytes of the path
    ret,        \* the last call of the API and what it returned
    hist,       \* handle -> what has been done to a file since it was created empty
    wa,         \* a run of Write::write_all over an arbitrary Write implementor
    conv        \* an Error conversion and its result

vars == <<files, exists, data, ret, hist, wa, conv>>

\* ---------------------------------------------------------------- bounds
MaxFiles == 1       \* handles ever allocated
MaxSize == 2        \* capacity of the storage, in bytes
MaxBuf == 2         \* longest caller buffer given to read/write
U32_MAX == 3        \* largest native offset (u32), scaled down
MaxLen == 4         \* longest buffer given to write_all
MaxCalls == 5       \* the count of underlying writes saturates here
MaxCode == 11       \* native codes 0..MaxCode are tried in from_sys

Min(a, b) == IF a < b THEN a ELSE b

Handles == 1..MaxFiles
Byte == {0, 1}
Bufs == UNION {[1..n -> Byte] : n \in 0..MaxBuf}

\* ---------------------------------------------------------------- Error
FS_Error_FSE_OK == 0
FS_Error_FSE_NOT_READY == 1
FS_Error_FSE_EXIST == 2
FS_Error_FSE_NOT_EXIST == 3
FS_Error_FSE_INVALID_PARAMETER == 4
FS_Error_FSE_DENIED == 5
FS_Error_FSE_INVALID_NAME == 6
FS_Error_FSE_INTERNAL == 7
FS_Error_FSE_NOT_IMPLEMENTED == 8
FS_Error_FSE_ALREADY_OPEN == 9

Error == {"Ok", "NotReady", "Exists", "NotExists", "InvalidParameter", "Denied",
          "InvalidName", "Internal", "NotImplemented", "AlreadyOpen"}

\* the result of unimplemented!(): the call does not return
Panic == "panic"

\* a faulty to_sys: NotExists is given the code of Exists
to_sys_swapped(e) ==
    CASE e = "Ok" -> FS_Error_FSE_OK
      [] e = "NotReady" -> FS_Error_FSE_NOT_READY
      [] e = "Exists" -> FS_Error_FSE_EXIST
      [] e = "NotExists" -> FS_Error_FSE_EXIST
      [] e = "InvalidParameter" -> FS_Error_FSE_INVALID_PARAMETER
      [] e = "Denied" -> FS_Error_FSE_DENIED
      [] e = "InvalidName" -> FS_Error_FSE_INVALID_NAME
      [] e = "Internal" -> FS_Error_FSE_INTERNAL
      [] e = "NotImplemented" -> FS_Error_FSE_NOT_IMPLEMENTED
      [] e = "AlreadyOpen" -> FS_Error_FSE_ALREADY_OPEN

to_sys(e) ==
    CASE e = "Ok" -> FS_Error_FSE_OK
      [] e = "NotReady" -> FS_Error_FSE_NOT_READY
      [] e = "Exists" -> FS_Error_FSE_EXIST
      [] e = "NotExists" -> FS_Error_FSE_NOT_EXIST
      [] e = "InvalidParameter" -> FS_Error_FSE_INVALID_PARAMETER
      [] e = "Denied" -> FS_Error_FSE_DENIED
      [] e = "InvalidName" -> FS_Error_FSE_INVALID_NAME
      [] e = "Internal" -> FS_Error_FSE_INTERNAL
      [] e = "NotImplemented" -> FS_Error_FSE_NOT_IMPLEMENTED
      [] e = "AlreadyOpen" -> FS_Error_FSE_ALREADY_OPEN

from_sys(err) ==
    CASE err = FS_Error_FSE_OK -> "Ok"
      [] err = FS_Error_FSE_NOT_READY -> "NotReady"
      [] err = FS_Error_FSE_EXIST -> "Exists"
      [] err = FS_Error_FSE_NOT_EXIST -> "NotExists"
      [] err = FS_Error_FSE_INVALID_PARAMETER -> "InvalidParameter"
      [] err = FS_Error_FSE_DENIED -> "Denied"
      [] err = FS_Error_FSE_INVALID_NAME -> "InvalidName"
      [] err = FS_Error_FSE_INTERNAL -> "Internal"
      [] err = FS_Error_FSE_NOT_IMPLEMENTED -> "NotImplemented"
      [] err = FS_Error_FSE_ALREADY_OPEN -> "AlreadyOpen"
      [] OTHER -> Panic

\* a Result; Ok(()) and Ok(File) carry 0
Ok(v) == <<"Ok", v>>
Err(e) == <<"Err", e>>
IsOk(r) == r[1] = "Ok"

\* ---------------------------------------------------------------- firmware
FS_AccessMode_FSAM_READ == 1
FS_AccessMode_FSAM_WRITE == 2
FS_OpenMode_FSOM_OPEN_EXISTING == 1
FS_OpenMode_FSOM_OPEN_ALWAYS == 2
FS_OpenMode_FSOM_OPEN_APPEND == 4
FS_OpenMode_FSOM_CREATE_NEW == 8
FS_OpenMode_FSOM_CREATE_ALWAYS == 16

AccessModes == {FS_AccessMode_FSAM_READ, FS_AccessMode_FSAM_WRITE,
                FS_AccessMode_FSAM_READ + FS_AccessMode_FSAM_WRITE}
OpenModes == {FS_OpenMode_FSOM_OPEN_EXISTING, FS_OpenMode_FSOM_OPEN_ALWAYS,
              FS_OpenMode_FSOM_OPEN_APPEND, FS_OpenMode_FSOM_CREATE_NEW,
              FS_OpenMode_FSOM_CREATE_ALWAYS}

\* what the device can answer to a fallible call: success, or one of its failures
DevStatus == {FS_Error_FSE_OK, FS_Error_FSE_NOT_READY}

\* a handle never allocated
NoFile == [st |-> "none", live |-> FALSE, closes |-> 0, pos |-> 0,
           rd |-> FALSE, wr |-> FALSE]

\* the part of the world one call on one handle sees: w = [f, exists, data]
World(h) == [f |-> files[h], exists |-> exists, data |-> data]

Native(w, error, r) == [w |-> w, error |-> error, ret |-> r]

storage_file_alloc(w) ==
    [w EXCEPT !.f = [st |-> "alloc", live |-> FALSE, closes |-> 0, pos |-> 0,
                     rd |-> FALSE, wr |-> FALSE]]

\* busy: another handle holds the path open
storage_file_open(w, access_mode, open_mode, busy, dev) ==
    LET rd == (access_mode \div FS_AccessMode_FSAM_READ) % 2 = 1
        wr == (access_mode \div FS_AccessMode_FSAM_WRITE) % 2 = 1
        opened(ex, d, p) ==
            Native([f |-> [w.f EXCEPT !.st = "open", !.pos = p, !.rd = rd, !.wr = wr],
                    exists |-> ex, data |-> d], FS_Error_FSE_OK, TRUE)
        failed(e) == Native([w EXCEPT !.f.st = "failed"], e, FALSE)
    IN  IF dev # FS_Error_FSE_OK THEN failed(dev)
        ELSE IF busy THEN failed(FS_Error_FSE_ALREADY_OPEN)
        ELSE CASE open_mode = FS_OpenMode_FSOM_OPEN_EXISTING ->
                    IF w.exists THEN opened(TRUE, w.data, 0)
                    ELSE failed(FS_Error_FSE_NOT_EXIST)
               [] open_mode = FS_OpenMode_FSOM_OPEN_ALWAYS ->
                    opened(TRUE, IF w.exists THEN w.data ELSE <<>>, 0)
               [] open_mode = FS_OpenMode_FSOM_OPEN_APPEND ->
                    IF w.exists THEN opened(TRUE, w.data, Len(w.data))
                    ELSE opened(TRUE, <<>>, 0)
               [] open_mode = FS_OpenMode_FSOM_CREATE_NEW ->
                    IF w.exists THEN failed(FS_Error_FSE_EXIST)
                    ELSE opened(TRUE, <<>>, 0)
               [] open_mode = FS_OpenMode_FSOM_CREATE_ALWAYS ->
                    opened(TRUE, <<>>, 0)

storage_file_get_error(n) == n.error

storage_file_close(w) ==
    [w EXCEPT !.f.st = "closed", !.f.closes = @ + 1, !.f.pos = 0,
              !.f.rd = FALSE, !.f.wr = FALSE]

storage_file_tell(w) == IF w.f.st = "open" THEN w.f.pos ELSE 0

storage_file_size(w) == IF w.f.st = "open" THEN Len(w.data) ELSE 0

\* from_start: the offset is absolute; otherwise it is relative to the position
storage_file_seek(w, offset, from_start, dev) ==
    IF w.f.st # "open" THEN Native(w, FS_Error_FSE_INVALID_PARAMETER, FALSE)
    ELSE IF dev # FS_Error_FSE_OK THEN Native(w, dev, FALSE)
    ELSE LET target == IF from_start THEN offset ELSE w.f.pos + offset
             limit == IF w.f.wr THEN MaxSize ELSE Len(w.data)
             np == Min(target, limit)
             nd == IF np > Len(w.data)
                   THEN w.data \o [i \in 1..(np - Len(w.data)) |-> 0]
                   ELSE w.data
         IN  Native([w EXCEPT !.f.pos = np, !.data = nd], FS_Error_FSE_OK, TRUE)

storage_file_read(w, len, dev) ==
    IF w.f.st # "open" THEN Native(w, FS_Error_FSE_INVALID_PARAMETER, 0)
    ELSE IF ~w.f.rd THEN Native(w, FS_Error_FSE_DENIED, 0)
    ELSE IF dev # FS_Error_FSE_OK THEN Native(w, dev, 0)
    ELSE LET k == Min(len, Len(w.data) - w.f.pos)
         IN  Native([w EXCEPT !.f.pos = @ + k], FS_Error_FSE_OK, k)

storage_file_write(w, buf, dev) ==
    IF w.f.st # "open" THEN Native(w, FS_Error_FSE_INVALID_PARAMETER, 0)
    ELSE IF ~w.f.wr THEN Native(w, FS_Error_FSE_DENIED, 0)
    ELSE IF dev # FS_Error_FSE_OK THEN Native(w, dev, 0)
    ELSE LET p == w.f.pos
             k == Min(Len(buf), MaxSize - p)
             n == IF p + k > Len(w.data) THEN p + k ELSE Len(w.data)
             nd == [i \in 1..n |-> IF i > p /\ i <= p + k THEN buf[i - p]
                                   ELSE w.data[i]]
         IN  Native([w EXCEPT !.f.pos = p + k, !.data = nd], FS_Error_FSE_OK, k)

\* ---------------------------------------------------------------- File
\* what a call of the API yields: the world after it, the value returned, the native
\* error status its last fallible native call left (FSE_OK when it made none) and
\* the number of native seek calls it issued
Call(w, res, nerr, nseek) == [w |-> w, res |-> res, nerr |-> nerr, nseek |-> nseek]

\* live: a File value owns the handle
File_new(w) == [storage_file_alloc(w) EXCEPT !.f.live = TRUE]

\* a faulty drop: the File goes away without storage_file_close
File_drop_leaking(w) == [w EXCEPT !.f.live = FALSE]

File_drop(w) == [storage_file_close(w) EXCEPT !.f.live = FALSE]

OpenOptions_open(w, access_mode, open_mode, busy, dev) ==
    LET f == File_new(w)
        n == storage_file_open(f, access_mode, open_mode, busy, dev)
    IN  IF n.ret THEN Call(n.w, Ok(0), n.error, 0)
        ELSE Call(File_drop(n.w), Err(from_sys(storage_file_get_error(n))),
                  n.error, 0)

\* buf.len() fits the native count for every buffer tried, so
\* buf.len().try_into().unwrap() does not panic; the bytes read are not recorded
File_read(w, len, dev) ==
    LET n == storage_file_read(w, len, dev)
    IN  Call(n.w, Ok(n.ret), n.error, 0)

File_write(w, buf, dev) ==
    LET n == storage_file_write(w, buf, dev)
    IN  Call(n.w, Ok(n.ret), n.error, 0)

File_flush(w) == Call(w, Ok(0), FS_Error_FSE_OK, 0)

\* n.try_into() of a u64 or an i64 into the native u32 offset
FitsU32(n) == n >= 0 /\ n <= U32_MAX

SeekFrom == {"Start", "End", "Current"}

\* a faulty seek: the offset is truncated to the native width (`n as u32`)
\* instead of being range-checked
File_seek_unchecked(w, pos, dev) ==
    LET n == storage_file_seek(w, pos[2] % (U32_MAX + 1), pos[1] = "Start", dev)
    IN  IF n.ret THEN Call(n.w, Ok(storage_file_tell(n.w)), n.error, 1)
        ELSE Call(n.w, Err(from_sys(storage_file_get_error(n))), n.error, 1)

\* pos = <<variant, n>>
File_seek(w, pos, dev) ==
    LET offset_type == pos[1] = "Start"
        offset == pos[2]
    IN  IF ~FitsU32(offset) THEN Call(w, Err("InvalidParameter"), FS_Error_FSE_OK, 0)
        ELSE LET n == storage_file_seek(w, offset, offset_type, dev)
             IN  IF n.ret THEN Call(n.w, Ok(storage_file_tell(n.w)), n.error, 1)
                 ELSE Call(n.w, Err(from_sys(storage_file_get_error(n))), n.error, 1)

\* a faulty rewind: it seeks to Start(1)
File_rewind_to_one(w, dev) ==
    LET r == File_seek(w, <<"Start", 1>>, dev)
    IN  IF IsOk(r.res) THEN [r EXCEPT !.res = Ok(0)] ELSE r

File_rewind(w, dev) ==
    LET r == File_seek(w, <<"Start", 0>>, dev)
    IN  IF IsOk(r.res) THEN [r EXCEPT !.res = Ok(0)] ELSE r

File_stream_len(w) == Call(w, Ok(storage_file_size(w)), FS_Error_FSE_OK, 0)

\* a faulty stream_position: it asks for the size instead of the position
File_stream_position_of_size(w) == Call(w, Ok(storage_file_size(w)), FS_Error_FSE_OK, 0)

File_stream_position(w) == Call(w, Ok(storage_file_tell(w)), FS_Error_FSE_OK, 0)

\* the provided Seek::stream_len, with Self = File
Seek_stream_len(w, dev1, dev2) ==
    LET old_pos == File_stream_position(w)
        len == File_seek(old_pos.w, <<"End", 0>>, dev1)
    IN  IF ~IsOk(len.res) THEN len
        ELSE IF old_pos.res[2] # len.res[2]
        THEN LET back == File_seek(len.w, <<"Start", old_pos.res[2]>>, dev2)
             IN  IF ~IsOk(back.res) THEN [back EXCEPT !.nseek = 2]
                 ELSE Call(back.w, len.res, back.nerr, 2)
        ELSE len

\* ---------------------------------------------------------------- the API, as actions
\* OpenOptions is given by the two bit fields its setters build: one open-mode
\* flag and any access mode with at least one of READ and WRITE.
Datas == UNION {[1..n -> Byte] : n \in 0..MaxSize}
StartOffsets == 0..(U32_MAX + 1)
RelOffsets == (0 - MaxSize)..(U32_MAX + 1)
SeekArgs == ({"Start"} \X StartOffsets) \cup ({"End", "Current"} \X RelOffsets)

\* ret.arg: <<variant, n, 0>> of a seek, <<"len", buf.len(), 0>> of a read or
\* write, <<"open", access_mode, open_mode>> of an open
NoArg == <<"none", 0, 0>>

NoCall == [op |-> "none", h |-> 0, arg |-> NoArg, res |-> Ok(0),
           nerr |-> FS_Error_FSE_OK, nseek |-> 0]
WaIdle == [pc |-> "idle", buf |-> <<>>, off |-> 0, calls |-> 0, passed |-> <<>>,
           prior |-> 0, sum |-> 0, last |-> Ok(0), full |-> TRUE, nerrs |-> 0,
           tick |-> 0, res |-> Ok(0)]
ConvIdle == [op |-> "none", e |-> "Ok", code |-> 0, sys |-> 0, err |-> "Ok"]

\* the handle the next storage_file_alloc returns
Fresh(h) == files[h].st = "none" /\ \A g \in Handles : g < h => files[g].st # "none"
Live(h) == files[h].live
OpenFile(h) == files[h].live /\ files[h].st = "open"

\* hist[h] = <<"writing", n>>: the file was created empty and writable, and only
\* writes that returned n bytes in total (and calls that touch nothing) followed;
\* <<"rewound", n>>: then one successful rewind, and calls that touch nothing
Queries == {"flush", "stream_len", "stream_position"}

History(was, op, r) ==
    CASE op = "open" /\ IsOk(r.res) /\ r.w.f.wr /\ r.w.data = <<>> -> <<"writing", 0>>
      [] op = "write" /\ IsOk(r.res) /\ was[1] = "writing" ->
            <<"writing", was[2] + r.res[2]>>
      [] op = "rewind" /\ IsOk(r.res) /\ was[1] = "writing" -> <<"rewound", was[2]>>
      [] op \in Queries -> was
      [] OTHER -> <<"off", 0>>

Apply(h, op, arg, r) ==
    /\ files' = [files EXCEPT ![h] = r.w.f]
    /\ exists' = r.w.exists
    /\ data' = r.w.data
    /\ ret' = [op |-> op, h |-> h, arg |-> arg, res |-> r.res, nerr |-> r.nerr,
               nseek |-> r.nseek]
    /\ hist' = [hist EXCEPT ![h] = History(hist[h], op, r)]
    /\ UNCHANGED <<wa, conv>>

New ==
    \E h \in Handles :
        /\ Fresh(h)
        /\ Apply(h, "new", NoArg, Call(File_new(World(h)), Ok(0), FS_Error_FSE_OK, 0))

Open ==
    \E h \in Handles, access_mode \in AccessModes, open_mode \in OpenModes,
       dev \in DevStatus :
        /\ Fresh(h)
        /\ Apply(h, "open", <<"open", access_mode, open_mode>>,
                 OpenOptions_open(World(h), access_mode, open_mode,
                                  \E g \in Handles : files[g].st = "open", dev))

Drop ==
    \E h \in Handles :
        /\ Live(h)
        /\ Apply(h, "drop", NoArg, Call(File_drop(World(h)), Ok(0), FS_Error_FSE_OK, 0))

Read ==
    \E h \in Handles, len \in 0..MaxBuf, dev \in DevStatus :
        /\ Live(h)
        /\ Apply(h, "read", <<"len", len, 0>>, File_read(World(h), len, dev))

Write ==
    \E h \in Handles, buf \in Bufs, dev \in DevStatus :
        /\ Live(h)
        /\ Apply(h, "write", <<"len", Len(buf), 0>>, File_write(World(h), buf, dev))

Flush ==
    \E h \in Handles :
        /\ Live(h)
        /\ Apply(h, "flush", NoArg, File_flush(World(h)))

Seek ==
    \E h \in Handles, pos \in SeekArgs, dev \in DevStatus :
        /\ Live(h)
        /\ Apply(h, "seek", <<pos[1], pos[2], 0>>, File_seek(World(h), pos, dev))

Rewind ==
    \E h \in Handles, dev \in DevStatus :
        /\ Live(h)
        /\ Apply(h, "rewind", NoArg, File_rewind(World(h), dev))

StreamLen ==
    \E h \in Handles :
        /\ Live(h)
        /\ Apply(h, "stream_len", NoArg, File_stream_len(World(h)))

StreamPosition ==
    \E h \in Handles :
        /\ Live(h)
        /\ Apply(h, "stream_position", NoArg, File_stream_position(World(h)))

\* the provided Seek::stream_len run on the File instead of its override
DefaultStreamLen ==
    \E h \in Handles, dev1 \in DevStatus, dev2 \in DevStatus :
        /\ Live(h)
        /\ Apply(h, "default_stream_len", NoArg, Seek_stream_len(World(h), dev1, dev2))

Init ==
    /\ files = [h \in Handles |-> NoFile]
    /\ \/ exists = FALSE /\ data = <<>>
       \/ exists = TRUE /\ data \in Datas
    /\ ret = NoCall
    /\ hist = [h \in Handles |-> <<"off", 0>>]
    /\ wa = WaIdle
    /\ conv = ConvIdle

Next ==
    \/ New
    \/ Open
    \/ Drop
    \/ Read
    \/ Write
    \/ Flush
    \/ Seek
    \/ Rewind
    \/ StreamLen
    \/ StreamPosition
    \/ DefaultStreamLen

Spec == Init /\ [][Next]_vars

\* ---------------------------------------------------------------- Write::write_all
\* wa.buf is the caller's buffer and wa.off the start of the slice `buf` of the loop.
\* The rest records the run: calls (the underlying writes made, saturating at
\* MaxCalls), passed (the slice the last write was given), prior and sum (the counts
\* the writes returned before and up to the last one), last (its result), full
\* (every write so far reported the whole slice), nerrs (the Err results so far),
\* tick (the parity of the writes made: every turn of the loop is a step).
WriteErrors == {"Denied", "Internal"}

\* what self.write(buf) may return for a slice of `remaining` bytes
WriteResults(remaining) == {Ok(n) : n \in 0..remaining} \cup {Err(e) : e \in WriteErrors}

Recorded(s, r) ==
    [s EXCEPT !.calls = Min(@ + 1, MaxCalls),
              !.tick = 1 - @,
              !.passed = SubSeq(s.buf, s.off + 1, Len(s.buf)),
              !.prior = s.sum,
              !.sum = IF IsOk(r) THEN @ + r[2] ELSE @,
              !.last = r,
              !.full = @ /\ r = Ok(Len(s.buf) - s.off),
              !.nerrs = IF IsOk(r) THEN @ ELSE @ + 1]

\* a faulty loop body: any successful write is taken to have written the whole slice
write_all_body_no_short(s, r) ==
    CASE r = Ok(0) -> Recorded(s, r)
      [] IsOk(r) /\ r # Ok(0) -> [Recorded(s, r) EXCEPT !.off = Len(s.buf)]
      [] OTHER -> [Recorded(s, r) EXCEPT !.pc = "done", !.res = r]

\* one turn of the loop: the match on the result r of self.write(buf)
write_all_body(s, r) ==
    CASE r = Ok(0) -> Recorded(s, r)
      [] IsOk(r) /\ r # Ok(0) -> [Recorded(s, r) EXCEPT !.off = @ + r[2]]
      [] OTHER -> [Recorded(s, r) EXCEPT !.pc = "done", !.res = r]

WriteAllWrite ==
    /\ wa.pc = "loop"
    /\ wa.off < Len(wa.buf)
    /\ \E r \in WriteResults(Len(wa.buf) - wa.off) : wa' = write_all_body(wa, r)
    /\ UNCHANGED <<files, exists, data, ret, hist, conv>>

WriteAllReturn ==
    /\ wa.pc = "loop"
    /\ wa.off = Len(wa.buf)
    /\ wa' = [wa EXCEPT !.pc = "done", !.res = Ok(0)]
    /\ UNCHANGED <<files, exists, data, ret, hist, conv>>

InitWriteAll ==
    /\ files = [h \in Handles |-> NoFile]
    /\ exists = FALSE
    /\ data = <<>>
    /\ ret = NoCall
    /\ hist = [h \in Handles |-> <<"off", 0>>]
    /\ conv = ConvIdle
    /\ \E len \in 0..MaxLen :
          wa = [WaIdle EXCEPT !.pc = "loop", !.buf = [i \in 1..len |-> i]]

NextWriteAll ==
    \/ WriteAllWrite
    \/ WriteAllReturn

SpecWriteAll == InitWriteAll /\ [][NextWriteAll]_vars

\* the loop is the only thing running: a turn that can be taken is taken
FairSpecWriteAll == SpecWriteAll /\ WF_vars(NextWriteAll)

\* ---------------------------------------------------------------- Error conversions
ToSys ==
    /\ conv.op = "none"
    /\ conv' = [conv EXCEPT !.op = "to_sys", !.sys = to_sys(conv.e)]
    /\ UNCHANGED <<files, exists, data, ret, hist, wa>>

FromSys ==
    /\ conv.op = "none"
    /\ conv' = [conv EXCEPT !.op = "from_sys", !.err = from_sys(conv.code)]
    /\ UNCHANGED <<files, exists, data, ret, hist, wa>>

RoundTrip ==
    /\ conv.op = "none"
    /\ conv' = [conv EXCEPT !.op = "round_trip", !.err = from_sys(to_sys(conv.e))]
    /\ UNCHANGED <<files, exists, data, ret, hist, wa>>

InitError ==
    /\ files = [h \in Handles |-> NoFile]
    /\ exists = FALSE
    /\ data = <<>>
    /\ ret = NoCall
    /\ hist = [h \in Handles |-> <<"off", 0>>]
    /\ wa = WaIdle
    /\ \E e \in Error, code \in 0..MaxCode :
          conv = [ConvIdle EXCEPT !.e = e, !.code = code]

NextError ==
    \/ ToSys
    \/ FromSys
    \/ RoundTrip

SpecError == InitError /\ [][NextError]_vars

\* ---------------------------------------------------------------- properties
Allocated(h) == files[h].st # "none"
Position(h) == File_stream_position(World(h)).res
Length(h) == File_stream_len(World(h)).res
WorldAfter(h) == [f |-> files'[h], exists |-> exists', data |-> data']

\* C1: every allocated handle is closed exactly once: not at all while a File owns
\* it, once as soon as the File is gone, and a failed open has closed its handle
\* when it returns.
C1_ClosedExactlyOnce ==
    /\ \A h \in Handles :
          Allocated(h) =>
              /\ files[h].live => files[h].closes = 0 /\ files[h].st \in {"alloc", "open"}
              /\ ~files[h].live => files[h].closes = 1 /\ files[h].st = "closed"
    /\ ret.op = "open" /\ ~IsOk(ret.res) =>
          ~files[ret.h].live /\ files[ret.h].closes = 1
    /\ ret.op = "open" /\ IsOk(ret.res) => files[ret.h].live

C1_Witness ==
    /\ ret.op = "open"
    /\ ret.arg[3] = FS_OpenMode_FSOM_CREATE_NEW
    /\ ret.res = Err("Exists")
    /\ exists
    /\ ~files[ret.h].live
    /\ files[ret.h].closes = 1

\* C2: a native open, seek, read or write that left an error status other than
\* FSE_OK makes the call return Err with that error; flush returns Ok.
C2_FailureSurfaced ==
    /\ ret.op \in {"open", "seek", "read", "write"} /\ ret.nerr # FS_Error_FSE_OK =>
          ret.res = Err(from_sys(ret.nerr))
    /\ ret.op = "flush" => IsOk(ret.res)

\* C3: write_all terminates whatever the underlying write returns.
C3_WriteAllTerminates == <>(wa.pc = "done")

\* C4: on an open file a seek whose target lies inside the file returns the
\* position its SeekFrom variant names: n, position + n, or size + n (unless the
\* native call itself failed, which is returned as Err).
SeekTarget(h, pos) ==
    CASE pos[1] = "Start" -> pos[2]
      [] pos[1] = "Current" -> files[h].pos + pos[2]
      [] pos[1] = "End" -> Len(data) + pos[2]

SeekStepResolves ==
    (ret'.op = "seek" /\ OpenFile(ret'.h) /\ SeekTarget(ret'.h, ret'.arg) \in 0..Len(data))
    => (\/ ret'.res = Ok(SeekTarget(ret'.h, ret'.arg))
        \/ (ret'.nerr # FS_Error_FSE_OK /\ ret'.res = Err(from_sys(ret'.nerr))))

\* C4: every seek step resolves its SeekFrom variant as above.
C4_SeekResolvesVariant == [][SeekStepResolves]_vars

\* C5: on an open file the provided stream_len, when it succeeds, returns what the
\* override returns and leaves the position where it was, as the override does.
DefaultStreamLenStepAgrees ==
    (ret'.op = "default_stream_len" /\ OpenFile(ret'.h) /\ IsOk(ret'.res))
    => (ret'.res = Length(ret'.h) /\ files'[ret'.h].pos = files[ret'.h].pos)

StreamLenStepKeepsPosition ==
    (ret'.op = "stream_len" /\ OpenFile(ret'.h))
    => (ret'.res = Length(ret'.h) /\ files'[ret'.h].pos = files[ret'.h].pos)

\* C5: every step of either stream_len agrees with the override's length and
\* keeps the position.
C5_StreamLenConsistent ==
    [][DefaultStreamLenStepAgrees /\ StreamLenStepKeepsPosition]_vars

\* C6: a seek whose offset does not fit the native width returns
\* Err(InvalidParameter), makes no native seek call and changes neither the
\* position nor the contents.
SeekStepRangeChecked ==
    (ret'.op = "seek" /\ ~FitsU32(ret'.arg[2]))
    => (/\ ret'.res = Err("InvalidParameter")
        /\ ret'.nseek = 0
        /\ files' = files
        /\ data' = data
        /\ exists' = exists)

\* C6: every seek step with an offset out of range is refused as above.
C6_RangeChecked == [][SeekStepRangeChecked]_vars

C6_Witness ==
    /\ ret.op = "seek"
    /\ ret.arg = <<"Current", U32_MAX + 1, 0>>
    /\ ret.res = Err("InvalidParameter")
    /\ files[ret.h].st = "open"
    /\ files[ret.h].pos = 1

\* C7: after writes that returned N bytes in all to a file created empty, and a
\* successful rewind, stream_position() is 0 and stream_len() is N; any successful
\* rewind leaves stream_position() at 0 and the length as it was.
RewoundAfterWrites ==
    \A h \in Handles :
        hist[h][1] = "rewound" => (Position(h) = Ok(0) /\ Length(h) = Ok(hist[h][2]))

RewindStep ==
    (ret'.op = "rewind" /\ IsOk(ret'.res))
    => (/\ File_stream_position(WorldAfter(ret'.h)).res = Ok(0)
        /\ File_stream_len(WorldAfter(ret'.h)).res = Length(ret'.h)
        /\ data' = data)

\* C7: a file rewound after its writes always reads position 0 and length N, and
\* every successful rewind step leaves position 0 and the length unchanged.
C7_RewindAfterWrites == []RewoundAfterWrites /\ [][RewindStep]_vars

C7_Witness ==
    /\ ret.op = "rewind"
    /\ IsOk(ret.res)
    /\ hist[ret.h] = <<"rewound", MaxSize>>
    /\ Length(ret.h) = Ok(MaxSize)

\* C8 as stated: seek(Current(0)) on an open file returns what stream_position()
\* returned just before, and neither call changes position, size or contents.
Untouched == files' = files /\ data' = data /\ exists' = exists

StreamPositionStep ==
    (ret'.op = "stream_position" /\ OpenFile(ret'.h))
    => (ret'.res = Position(ret'.h) /\ Untouched)

SeekCurrentZeroStep ==
    (ret'.op = "seek" /\ ret'.arg = <<"Current", 0, 0>> /\ OpenFile(ret'.h))
    => (ret'.res = Position(ret'.h) /\ Untouched)

\* C8 as stated: every stream_position and seek(Current(0)) step on an open file
\* returns the position and touches nothing.
C8_SeekCurrentZeroIsPosition == [][StreamPositionStep /\ SeekCurrentZeroStep]_vars

\* C8 amended: seek(Current(0)) on an open file returns what stream_position()
\* returned just before unless its native seek fails, and then it returns that
\* failure as Err; neither call changes position, size or contents.
SeekCurrentZeroStepUnlessFailed ==
    (ret'.op = "seek" /\ ret'.arg = <<"Current", 0, 0>> /\ OpenFile(ret'.h))
    => (/\ \/ (ret'.nerr = FS_Error_FSE_OK /\ ret'.res = Position(ret'.h))
           \/ (ret'.nerr # FS_Error_FSE_OK /\ ret'.res = Err(from_sys(ret'.nerr)))
        /\ Untouched)

\* C8 amended: as C8, except that a seek(Current(0)) whose native seek failed
\* returns that failure.
C8_SeekCurrentZeroIsPositionUnlessFailed ==
    [][StreamPositionStep /\ SeekCurrentZeroStepUnlessFailed]_vars

C8_Witness ==
    /\ ret.op = "seek"
    /\ ret.arg = <<"Current", 0, 0>>
    /\ ret.res = Ok(1)
    /\ OpenFile(ret.h)
    /\ Len(data) = MaxSize

\* C9: from_sys(to_sys(e)) = e for every variant, to_sys is one to one, every
\* known code comes back as the one variant that maps to it, and from_sys of any
\* other code returns no variant.
KnownCodes == {to_sys(e) : e \in Error}

\* C9: the round trip, to_sys one to one, and from_sys on known and unknown codes.
C9_RoundTrip ==
    /\ conv.op = "round_trip" => conv.err = conv.e
    /\ conv.op = "to_sys" => \A e \in Error : to_sys(e) = conv.sys => e = conv.e
    /\ conv.op = "from_sys" /\ conv.code \in KnownCodes =>
          conv.err \in Error /\ to_sys(conv.err) = conv.code
    /\ conv.op = "from_sys" /\ conv.code \notin KnownCodes => conv.err \notin Error

C9_Witness ==
    /\ conv.op = "round_trip"
    /\ conv.e = "AlreadyOpen"
    /\ conv.err = "AlreadyOpen"

\* C10: each write is given the suffix that starts at the sum of the counts
\* returned before it; Ok(()) is returned only when the counts sum to the length;
\* the first Err is returned at once; and when every write reports its whole
\* slice there is exactly one write (none for an empty buffer).
C10_WriteAllAdvances ==
    /\ wa.calls > 0 => wa.passed = SubSeq(wa.buf, wa.prior + 1, Len(wa.buf))
    /\ wa.pc = "done" /\ IsOk(wa.res) => wa.sum = Len(wa.buf)
    /\ wa.nerrs <= 1
    /\ wa.nerrs = 1 <=> wa.pc = "done" /\ ~IsOk(wa.res)
    /\ wa.nerrs = 1 => wa.res = wa.last
    /\ wa.pc = "done" /\ wa.full =>
          /\ IsOk(wa.res)
          /\ wa.sum = Len(wa.buf)
          /\ wa.calls = IF Len(wa.buf) = 0 THEN 0 ELSE 1

C10_Witness ==
    /\ wa.pc = "done"
    /\ IsOk(wa.res)
    /\ Len(wa.buf) = MaxLen
    /\ wa.calls = 3
    /\ wa.prior = 2
    /\ wa.passed = SubSeq(wa.buf, 3, MaxLen)

====
